---- MODULE Spec2Model ----
(***************************************************************************)
(* Pointer tracking and hover selection of the W_hotbox menu, as coded in  *)
(* test_mouse_events.py (QPoint, QRect, MockButton, MockHotbox).           *)
(* A button is identified by its index in MockHotbox.buttons; None is 0.   *)
(***************************************************************************)
EXTENDS Integers, Sequences, FiniteSets, TLC

VARIABLES
    buttons,              \* MockHotbox.buttons: sequence of MockButton
    hoveredButton,        \* MockHotbox.hoveredButton: None or a button
    pos,                  \* argument of the last simulate_mouseMove
    button_under_cursor,  \* local of the last simulate_mouseMove
    old_button,           \* local of the last simulate_mouseMove
    calls,                \* setSelectionStatus calls made by the last step
    lastOp,               \* "init", "move", "step", "find" or "external"
    progress,             \* how far the event history follows test_rapid_movement
    pc,                   \* statement group of simulate_mouseMove in progress, 0 if none
    idx,                  \* position of the clear loop in the button list
    fs,                   \* copy_hotbox_files: the directories and files it touches
    run,                  \* copy_hotbox_files: its position, locals and result
    hist                  \* copy_hotbox_files: what the run has done so far

stepVars == <<pc, idx>>

copyVars == <<fs, run, hist>>

hotboxVars == <<buttons, hoveredButton, pos, button_under_cursor, old_button,
                calls, lastOp, progress, pc, idx>>

vars == <<buttons, hoveredButton, pos, button_under_cursor, old_button,
          calls, lastOp, progress, pc, idx, fs, run, hist>>

None == 0

\* Longest generated button list, and the side of the generated point grid.
MaxButtons == 2
MaxCoord == 2

(***************************************************************************)
(* QPoint, QRect                                                           *)
(***************************************************************************)
QPoint(x, y) == [x |-> x, y |-> y]

QRect(x, y, w, h) == [x |-> x, y |-> y, width |-> w, height |-> h]

\* A containment test that excludes the right and bottom edges.
containsHalfOpen(r, point) ==
    /\ r.x <= point.x /\ point.x < r.x + r.width
    /\ r.y <= point.y /\ point.y < r.y + r.height

\* A containment test that forgets the upper bounds.
containsNoUpper(r, point) ==
    /\ r.x <= point.x
    /\ r.y <= point.y

contains(r, point) ==
    /\ r.x <= point.x /\ point.x <= r.x + r.width
    /\ r.y <= point.y /\ point.y <= r.y + r.height

(***************************************************************************)
(* MockButton                                                              *)
(***************************************************************************)
MockButton(parent_pos, size) ==
    [parent_pos |-> parent_pos, size |-> size, selected |-> FALSE]

rect(b) == QRect(0, 0, b.size[1], b.size[2])

\* A mapping that adds the offset instead of subtracting it.
mapFromAdd(b, p) == QPoint(p.x + b.parent_pos[1], p.y + b.parent_pos[2])

\* A mapping that subtracts each offset from the other coordinate.
mapFromSwapped(b, p) == QPoint(p.x - b.parent_pos[2], p.y - b.parent_pos[1])

mapFrom(b, p) == QPoint(p.x - b.parent_pos[1], p.y - b.parent_pos[2])

\* The mapping back out of the button's space: the offset is added.
mapTo(b, q) == QPoint(q.x + b.parent_pos[1], q.y + b.parent_pos[2])

\* A setSelectionStatus that also collapses the button's size.
setSelectionStatusResize(b, selected) ==
    [b EXCEPT !.selected = selected, !.size = <<0, 0>>]

setSelectionStatus(b, selected) == [b EXCEPT !.selected = selected]

(***************************************************************************)
(* MockHotbox._findButtonAtPosition: the loop of lines 70-79, entered at   *)
(* button i.                                                               *)
(***************************************************************************)
RECURSIVE FindFrom(_, _, _)
FindFrom(bs, p, i) ==
    IF i > Len(bs) THEN None
    ELSE IF contains(rect(bs[i]), mapFrom(bs[i], p)) THEN i
    ELSE FindFrom(bs, p, i + 1)

\* A search that keeps going and returns the last button that contains p.
RECURSIVE FindLastFrom(_, _, _)
FindLastFrom(bs, p, i) ==
    IF i < 1 THEN None
    ELSE IF contains(rect(bs[i]), mapFrom(bs[i], p)) THEN i
    ELSE FindLastFrom(bs, p, i - 1)

findLastButtonAtPosition(bs, p) == FindLastFrom(bs, p, Len(bs))

_findButtonAtPosition(bs, p) == FindFrom(bs, p, 1)

(***************************************************************************)
(* MockHotbox.simulate_mouseMove                                           *)
(***************************************************************************)
\* The hover-change test that is always true.
HoverChangeAlways(winner, old) == TRUE

\* Line 87: button_under_cursor != old_button (identity of the objects).
HoverChange(winner, old) == winner # old

\* A clear loop that leaves every flag as it is.
ClearNothing(bs) == bs

\* A clear loop that clears the first selected button only.
ClearFirstOnly(bs) ==
    LET S == {i \in 1..Len(bs) : bs[i].selected}
    IN  IF S = {} THEN bs
        ELSE LET m == CHOOSE i \in S : \A j \in S : i <= j
             IN  [bs EXCEPT ![m] = setSelectionStatus(bs[m], FALSE)]

\* Lines 91-93: the buttons after the clear loop.
ClearAll(bs) ==
    [i \in 1..Len(bs) |->
        IF bs[i].selected THEN setSelectionStatus(bs[i], FALSE) ELSE bs[i]]

\* A clear loop that calls setSelectionStatus(False) on every button.
RECURSIVE ClearCallsEvery(_, _)
ClearCallsEvery(bs, i) ==
    IF i > Len(bs) THEN <<>>
    ELSE <<(<<i, FALSE>>)>> \o ClearCallsEvery(bs, i + 1)

\* A clear loop that stops after the first selected button.
RECURSIVE ClearCallsFirstOnly(_, _)
ClearCallsFirstOnly(bs, i) ==
    IF i > Len(bs) THEN <<>>
    ELSE IF bs[i].selected THEN <<(<<i, FALSE>>)>>
    ELSE ClearCallsFirstOnly(bs, i + 1)

\* Lines 91-93: the setSelectionStatus calls of the clear loop, from button i.
RECURSIVE ClearCalls(_, _)
ClearCalls(bs, i) ==
    IF i > Len(bs) THEN <<>>
    ELSE (IF bs[i].selected THEN <<(<<i, FALSE>>)>> ELSE <<>>)
            \o ClearCalls(bs, i + 1)

\* A hover update that keeps the old reference when the pointer left.
NewHoveredSticky(winner, old) == IF winner = None THEN old ELSE winner

\* Line 96: self.hoveredButton = button_under_cursor.
NewHovered(winner, old) == winner

\* Lines 97-98: the buttons after the winner, if any, was selected.
SelectWinner(bs, winner) ==
    IF winner # None
    THEN [bs EXCEPT ![winner] = setSelectionStatus(bs[winner], TRUE)]
    ELSE bs

\* A select that calls setSelectionStatus(True) twice.
SelectCallsTwice(winner) ==
    IF winner # None THEN <<(<<winner, TRUE>>), (<<winner, TRUE>>)>> ELSE <<>>

\* Lines 97-98: the setSelectionStatus call made for the winner.
SelectCalls(winner) ==
    IF winner # None THEN <<(<<winner, TRUE>>)>> ELSE <<>>

(***************************************************************************)
(* The scripted positions of test_rapid_movement.                          *)
(***************************************************************************)
RapidPositions ==
    << QPoint(62, 27), QPoint(177, 27), QPoint(62, 27),
       QPoint(292, 27), QPoint(177, 27) >>

\* progress = Off: the events so far are not a prefix of the script.
Off == Len(RapidPositions) + 1

\* progress = k: the events so far are exactly the first k scripted positions.
Follow(k, p) ==
    IF k # Off /\ k < Len(RapidPositions) /\ p = RapidPositions[k + 1]
    THEN k + 1 ELSE Off

simulate_mouseMove(p) ==
    LET winner == _findButtonAtPosition(buttons, p)
        old    == hoveredButton
    IN  /\ pos' = p
        /\ button_under_cursor' = winner
        /\ old_button' = old
        /\ IF HoverChange(winner, old)
           THEN /\ buttons' = SelectWinner(ClearAll(buttons), winner)
                /\ hoveredButton' = NewHovered(winner, old)
                /\ calls' = ClearCalls(buttons, 1) \o SelectCalls(winner)
           ELSE /\ UNCHANGED <<buttons, hoveredButton>>
                /\ calls' = <<>>
        /\ lastOp' = "move"
        /\ progress' = Follow(progress, p)

(***************************************************************************)
(* simulate_mouseMove observed one statement group at a time. While a call *)
(* is in progress lastOp is "step" and pc is the position in StepOrder of  *)
(* the group to run next.                                                  *)
(***************************************************************************)
\* An order that selects the winner before the clear loop.
StepOrderSelectFirst == <<"select", "hover", "clear">>

\* Lines 90-98: the clear loop, the hoveredButton update, the select.
StepOrder == <<"clear", "hover", "select">>

Phase == IF pc = 0 THEN "idle" ELSE StepOrder[pc]

\* Lines 84-88: find the winner and test for a hover change.
StepBegin(p) ==
    LET winner == _findButtonAtPosition(buttons, p)
        old    == hoveredButton
    IN  /\ pc = 0
        /\ pos' = p
        /\ button_under_cursor' = winner
        /\ old_button' = old
        /\ calls' = <<>>
        /\ progress' = Follow(progress, p)
        /\ IF HoverChange(winner, old)
           THEN /\ pc' = 1
                /\ idx' = 1
                /\ lastOp' = "step"
           ELSE /\ pc' = 0
                /\ idx' = 0
                /\ lastOp' = "move"
        /\ UNCHANGED <<buttons, hoveredButton>>

\* The end of a statement group: on to the next, or return after the last.
Advance ==
    IF pc = Len(StepOrder)
    THEN /\ pc' = 0
         /\ idx' = 0
         /\ lastOp' = "move"
    ELSE /\ pc' = pc + 1
         /\ idx' = 1
         /\ UNCHANGED lastOp

\* Lines 91-93: one iteration of the clear loop.
StepClear ==
    /\ Phase = "clear"
    /\ idx <= Len(buttons)
    /\ IF buttons[idx].selected
       THEN /\ buttons' = [buttons EXCEPT
                                ![idx] = setSelectionStatus(buttons[idx], FALSE)]
            /\ calls' = Append(calls, <<idx, FALSE>>)
       ELSE UNCHANGED <<buttons, calls>>
    /\ idx' = idx + 1
    /\ UNCHANGED <<hoveredButton, pos, button_under_cursor, old_button,
                   lastOp, progress, pc>>

\* Line 91: the clear loop has run through the list.
StepClearExit ==
    /\ Phase = "clear"
    /\ idx > Len(buttons)
    /\ Advance
    /\ UNCHANGED <<buttons, hoveredButton, pos, button_under_cursor,
                   old_button, calls, progress>>

\* Line 96: the hoveredButton update.
StepHover ==
    /\ Phase = "hover"
    /\ hoveredButton' = NewHovered(button_under_cursor, old_button)
    /\ Advance
    /\ UNCHANGED <<buttons, pos, button_under_cursor, old_button, calls,
                   progress>>

\* Lines 97-98: the select of the winner.
StepSelect ==
    /\ Phase = "select"
    /\ buttons' = SelectWinner(buttons, button_under_cursor)
    /\ calls' = calls \o SelectCalls(button_under_cursor)
    /\ Advance
    /\ UNCHANGED <<hoveredButton, pos, button_under_cursor, old_button,
                   progress>>

(***************************************************************************)
(* A call of _findButtonAtPosition on its own, as test_coordinate_conversion *)
(* makes: it reads the buttons and assigns no attribute.                   *)
(***************************************************************************)
FindOnly(p) ==
    /\ pos' = p
    /\ button_under_cursor' = _findButtonAtPosition(buttons, p)
    /\ old_button' = None
    /\ calls' = <<>>
    /\ lastOp' = "find"
    /\ UNCHANGED <<buttons, hoveredButton, progress>>

(***************************************************************************)
(* A write of MockButton.selected from outside simulate_mouseMove. The     *)
(* locals of the last simulate_mouseMove are gone by then.                 *)
(***************************************************************************)
ExternalSet(i, selected) ==
    /\ i \in 1..Len(buttons)
    /\ buttons[i].selected # selected
    /\ buttons' = [buttons EXCEPT ![i] = setSelectionStatus(buttons[i], selected)]
    /\ calls' = <<(<<i, selected>>)>>
    /\ lastOp' = "external"
    /\ progress' = Off
    /\ pos' = QPoint(0, 0)
    /\ button_under_cursor' = None
    /\ old_button' = None
    /\ UNCHANGED hoveredButton

(***************************************************************************)
(* copy_hotbox_files (copy_hotbox_files.py). A file is the content it      *)
(* holds, or Absent; files are named by their position in files_to_copy.   *)
(***************************************************************************)
files_to_copy == <<"W_hotbox.py", "W_hotboxManager.py">>

Files == 1..Len(files_to_copy)

Absent == "absent"

NoFiles ==
    [source_dir |-> FALSE, dest_dir |-> FALSE,
     source |-> [f \in Files |-> Absent],
     dest   |-> [f \in Files |-> Absent],
     backup |-> [f \in Files |-> Absent]]

NotStarted == [pc |-> "start", i |-> 1, success_count |-> 0, result |-> "none"]

\* Nothing done yet on the file system f0.
NoHistory(f0) ==
    [fs0 |-> f0, copied |-> {}, before |-> [f \in Files |-> "none"],
     backup_failed |-> {}, visited |-> {}]

\* shutil.copy2(src, dst): dst gets the content of src, or the call raises
\* with dst untouched, or it raises with dst partly written.
copy2(src, dst) ==
    { [ok |-> TRUE, dst |-> src],
      [ok |-> FALSE, dst |-> dst],
      [ok |-> FALSE, dst |-> "partial"] }

\* A test that never asks for a backup.
BackupNever(d) == FALSE

\* Line 48: os.path.exists(dest_file).
BackupNeeded(d) == d # Absent

\* A result that is content with one copied file.
ReturnValueAny(count) == IF count >= 1 THEN "True" ELSE "False"

\* Lines 67-72: the value returned after the loop.
ReturnValue(count) ==
    IF count = Len(files_to_copy) THEN "True" ELSE "False"

\* Lines 26-37: the two directory checks.
CheckDirs ==
    /\ run.pc = "start"
    /\ IF ~fs.source_dir \/ ~fs.dest_dir
       THEN run' = [run EXCEPT !.pc = "done", !.result = "False"]
       ELSE run' = [run EXCEPT !.pc = "file", !.i = 1, !.success_count = 0]
    /\ UNCHANGED <<fs, hist>>

\* Lines 38-44: the next file of the loop, skipped if its source is missing.
CheckSource ==
    /\ run.pc = "file"
    /\ run.i <= Len(files_to_copy)
    /\ hist' = [hist EXCEPT !.visited = @ \cup {run.i}]
    /\ IF fs.source[run.i] = Absent
       THEN run' = [run EXCEPT !.i = @ + 1]
       ELSE run' = [run EXCEPT !.pc = "backup"]
    /\ UNCHANGED fs

\* Lines 47-51: the backup of an existing destination file; a backup that
\* raises ends the attempt on this file (lines 58-62).
Backup ==
    /\ run.pc = "backup"
    /\ IF BackupNeeded(fs.dest[run.i])
       THEN \E o \in copy2(fs.dest[run.i], fs.backup[run.i]) :
                /\ fs' = [fs EXCEPT !.backup[run.i] = o.dst]
                /\ IF o.ok
                   THEN /\ run' = [run EXCEPT !.pc = "copy"]
                        /\ UNCHANGED hist
                   ELSE /\ run' = [run EXCEPT !.pc = "file", !.i = @ + 1]
                        /\ hist' = [hist EXCEPT
                                        !.backup_failed = @ \cup {run.i}]
       ELSE /\ run' = [run EXCEPT !.pc = "copy"]
            /\ UNCHANGED <<fs, hist>>

\* Lines 53-62: the copy of the source file over the destination file.
Copy ==
    /\ run.pc = "copy"
    /\ \E o \in copy2(fs.source[run.i], fs.dest[run.i]) :
        /\ fs' = [fs EXCEPT !.dest[run.i] = o.dst]
        /\ run' = [run EXCEPT
                    !.pc = "file", !.i = @ + 1,
                    !.success_count = IF o.ok THEN @ + 1 ELSE @]
        /\ hist' = [hist EXCEPT
                    !.copied = IF o.ok THEN @ \cup {run.i} ELSE @,
                    !.before[run.i] =
                        IF o.dst # fs.dest[run.i] THEN fs.dest[run.i] ELSE @]

\* Lines 64-72: the result.
Finish ==
    /\ run.pc = "file"
    /\ run.i > Len(files_to_copy)
    /\ run' = [run EXCEPT !.pc = "done",
                          !.result = ReturnValue(run.success_count)]
    /\ UNCHANGED <<fs, hist>>

\* The directories and files a run may find.
FileSystems ==
    { f \in [source_dir : BOOLEAN, dest_dir : BOOLEAN,
             source : [Files -> {Absent, "new"}],
             dest   : [Files -> {Absent, "old"}],
             backup : [Files -> {Absent, "older"}]] :
        /\ ~f.source_dir => \A x \in Files : f.source[x] = Absent
        /\ ~f.dest_dir => \A x \in Files :
                                f.dest[x] = Absent /\ f.backup[x] = Absent }

(***************************************************************************)
(* Button layouts and pointer positions.                                   *)
(***************************************************************************)
\* test_coordinate_conversion and test_hover_state_management.
TestLayout ==
    << MockButton(<<10, 10>>, <<105, 35>>),
       MockButton(<<125, 10>>, <<105, 35>>),
       MockButton(<<10, 55>>, <<105, 35>>) >>

\* test_rapid_movement.
RapidLayout ==
    << MockButton(<<10, 10>>, <<105, 35>>),
       MockButton(<<125, 10>>, <<105, 35>>),
       MockButton(<<240, 10>>, <<105, 35>>) >>

\* Small buttons: plain, adjacent, overlapping, empty and inverted.
SmallButtons ==
    { MockButton(<<0, 0>>, <<1, 1>>),
      MockButton(<<1, 0>>, <<1, 1>>),
      MockButton(<<0, 0>>, <<2, 2>>),
      MockButton(<<1, 1>>, <<0, 0>>),
      MockButton(<<0, 1>>, <<0, 1>>),
      MockButton(<<0, 2>>, <<2, 0>>),
      MockButton(<<1, 1>>, <<-1, 1>>),
      MockButton(<<0, 0>>, <<2, -1>>) }

SmallLayouts ==
    UNION { [1..n -> SmallButtons] : n \in 0..MaxButtons }

Layouts == {TestLayout, RapidLayout} \cup SmallLayouts

NamedPoints ==
    { QPoint(62, 27), QPoint(177, 27), QPoint(62, 72), QPoint(5, 5),
      QPoint(250, 25), QPoint(292, 27),
      QPoint(10, 10), QPoint(115, 10), QPoint(10, 45), QPoint(115, 45),
      QPoint(9, 10), QPoint(116, 10) }

GridPoints == { QPoint(x, y) : x \in 0..MaxCoord, y \in 0..MaxCoord }

\* The positions fed to a button list: the positions of the tests for the
\* lists of the tests, the grid and one far position for the small lists.
PointsFor(bs) ==
    LET layout == [i \in 1..Len(bs) |-> MockButton(bs[i].parent_pos, bs[i].size)]
    IN  IF layout \in {TestLayout, RapidLayout}
        THEN NamedPoints
        ELSE GridPoints \cup {QPoint(5, 5)}

(***************************************************************************)
(* Specifications                                                          *)
(***************************************************************************)
Init ==
    /\ buttons \in Layouts
    /\ hoveredButton = None
    /\ pos = QPoint(0, 0)
    /\ button_under_cursor = None
    /\ old_button = None
    /\ calls = <<>>
    /\ lastOp = "init"
    /\ progress = 0
    /\ pc = 0
    /\ idx = 0
    /\ fs = NoFiles
    /\ run = NotStarted
    /\ hist = NoHistory(NoFiles)

MouseMove ==
    /\ \E p \in PointsFor(buttons) : simulate_mouseMove(p)
    /\ UNCHANGED <<stepVars, copyVars>>

External ==
    /\ \E i \in 1..Len(buttons) : \E s \in BOOLEAN : ExternalSet(i, s)
    /\ UNCHANGED <<stepVars, copyVars>>

Next == MouseMove

NextDrift == MouseMove \/ External

Find ==
    /\ \E p \in PointsFor(buttons) : FindOnly(p)
    /\ UNCHANGED <<stepVars, copyVars>>

NextFind == MouseMove \/ Find

MouseMoveSteps ==
    \/ (\E p \in PointsFor(buttons) : StepBegin(p)) /\ UNCHANGED copyVars
    \/ StepClear /\ UNCHANGED copyVars
    \/ StepClearExit /\ UNCHANGED copyVars
    \/ StepHover /\ UNCHANGED copyVars
    \/ StepSelect /\ UNCHANGED copyVars

NextSteps == MouseMoveSteps

\* Pointer-move events only.
Spec == Init /\ [][Next]_vars

\* Pointer-move events and bare calls of _findButtonAtPosition.
SpecFind == Init /\ [][NextFind]_vars

\* Pointer-move events, each observed statement group by statement group.
SpecSteps == Init /\ [][NextSteps]_vars

InitCopy ==
    /\ buttons = <<>>
    /\ hoveredButton = None
    /\ pos = QPoint(0, 0)
    /\ button_under_cursor = None
    /\ old_button = None
    /\ calls = <<>>
    /\ lastOp = "init"
    /\ progress = 0
    /\ pc = 0
    /\ idx = 0
    /\ fs \in FileSystems
    /\ run = NotStarted
    /\ hist = NoHistory(fs)

NextCopy ==
    \/ CheckDirs /\ UNCHANGED hotboxVars
    \/ CheckSource /\ UNCHANGED hotboxVars
    \/ Backup /\ UNCHANGED hotboxVars
    \/ Copy /\ UNCHANGED hotboxVars
    \/ Finish /\ UNCHANGED hotboxVars

\* One run of copy_hotbox_files on any file system.
SpecCopy == InitCopy /\ [][NextCopy]_vars

\* Pointer-move events interleaved with external writes of the flags.
SpecDrift == Init /\ [][NextDrift]_vars

(***************************************************************************)
(* Vocabulary of the properties                                            *)
(***************************************************************************)
Selected == {i \in 1..Len(buttons) : buttons[i].selected}

\* The closed rectangle of button b in the hotbox's coordinates holds p.
InClosedRect(b, p) ==
    /\ b.parent_pos[1] <= p.x /\ p.x <= b.parent_pos[1] + b.size[1]
    /\ b.parent_pos[2] <= p.y /\ p.y <= b.parent_pos[2] + b.size[2]

Hits(p) == {i \in 1..Len(buttons) : InClosedRect(buttons[i], p)}

FirstHit(p) ==
    IF Hits(p) = {} THEN None
    ELSE CHOOSE i \in Hits(p) : \A j \in Hits(p) : i <= j

Geometry(bs) == [i \in 1..Len(bs) |-> <<bs[i].parent_pos, bs[i].size>>]

HoverConsistent ==
    Selected = (IF hoveredButton = None THEN {} ELSE {hoveredButton})

(***************************************************************************)
(* C1. Single selection: with pointer-move events only, after every event  *)
(* at most one button is selected, and a selected button is the hovered    *)
(* one.                                                                    *)
(***************************************************************************)
SingleSelection ==
    /\ Cardinality(Selected) <= 1
    /\ Selected \subseteq {hoveredButton}

SingleSelectionWitness ==
    /\ lastOp = "move"
    /\ Cardinality(Selected) = 1
    /\ old_button # None
    /\ old_button # hoveredButton

(***************************************************************************)
(* C2. Hover tracks the pointer: after a pointer-move event at p the       *)
(* hovered button is the button found at p, it is selected and no other    *)
(* button is.                                                              *)
(***************************************************************************)
HoverTracksPointer ==
    lastOp = "move" =>
        /\ hoveredButton = _findButtonAtPosition(buttons, pos)
        /\ hoveredButton = FirstHit(pos)
        /\ \A i \in 1..Len(buttons) : buttons[i].selected <=> (i = hoveredButton)

HoverTracksPointerWitness ==
    /\ lastOp = "move"
    /\ old_button # None
    /\ hoveredButton = None
    /\ Selected = {}
    /\ Hits(pos) = {}

(***************************************************************************)
(* C3. _findButtonAtPosition returns the first button, in list order,      *)
(* whose closed rectangle [ox, ox+w] x [oy, oy+h] holds the point, and     *)
(* None exactly when no rectangle holds it.                                *)
(***************************************************************************)
FindAgreesWithHitTest ==
    lastOp = "move" =>
        /\ button_under_cursor = FirstHit(pos)
        /\ (button_under_cursor = None) <=> (Hits(pos) = {})

FindAgreesWithHitTestWitness ==
    /\ lastOp = "move"
    /\ Cardinality(Hits(pos)) >= 1
    /\ button_under_cursor = 2
    /\ 1 \notin Hits(pos)

(***************************************************************************)
(* C4. Containment includes all four edges: of a button at (10,10) of size *)
(* (105,35), the corners (10,10), (115,10), (10,45), (115,45) are inside,  *)
(* and (9,10) and (116,10) are outside.                                    *)
(***************************************************************************)
EdgeInside ==
    {QPoint(10, 10), QPoint(115, 10), QPoint(10, 45), QPoint(115, 45)}

EdgeOutside == {QPoint(9, 10), QPoint(116, 10)}

BoundaryInclusive ==
    (/\ lastOp = "move"
     /\ Len(buttons) >= 1
     /\ buttons[1].parent_pos = <<10, 10>>
     /\ buttons[1].size = <<105, 35>>)
    => /\ pos \in EdgeInside => button_under_cursor = 1
       /\ pos \in EdgeOutside => button_under_cursor # 1

BoundaryInclusiveWitness ==
    /\ lastOp = "move"
    /\ Geometry(buttons) = Geometry(TestLayout)
    /\ pos = QPoint(115, 45)
    /\ button_under_cursor = 1

(***************************************************************************)
(* C5. Overlap tie-break: when buttons A and B, A earlier in the list,     *)
(* both hold the point, B is not found, and after the event B is not       *)
(* selected; A, the earliest such button, is found, hovered and selected.  *)
(***************************************************************************)
OverlapTieBreak ==
    lastOp = "move" =>
        \A a, b \in Hits(pos) :
            a < b =>
                /\ button_under_cursor # b
                /\ hoveredButton # b
                /\ ~buttons[b].selected
                /\ (\A c \in Hits(pos) : a <= c) =>
                        /\ button_under_cursor = a
                        /\ hoveredButton = a
                        /\ buttons[a].selected

OverlapTieBreakWitness ==
    /\ lastOp = "move"
    /\ Len(buttons) = 2
    /\ Hits(pos) = {1, 2}
    /\ old_button = 2
    /\ hoveredButton = 1
    /\ Selected = {1}

(***************************************************************************)
(* C6. No-op on unchanged hover: a pointer-move event whose winner is the  *)
(* button already hovered (or None and None) makes no setSelectionStatus   *)
(* call and changes neither the hovered reference nor any flag; the second *)
(* of two consecutive events with the same winner makes no call.           *)
(***************************************************************************)
NoOpOnUnchangedHover ==
    [][ /\ (lastOp' = "move" /\ button_under_cursor' = old_button')
            => /\ calls' = <<>>
               /\ buttons' = buttons
               /\ hoveredButton' = hoveredButton
        /\ (lastOp = "move" /\ lastOp' = "move"
                /\ button_under_cursor' = button_under_cursor)
            => calls' = <<>> ]_vars

NoOpOnUnchangedHoverWitness ==
    /\ lastOp = "move"
    /\ button_under_cursor = old_button
    /\ old_button # None
    /\ Selected = {hoveredButton}
    /\ calls = <<>>

(***************************************************************************)
(* C7. Outside all: a pointer-move event at a point in no button finds     *)
(* None, leaves the hovered reference empty and every flag clear, makes    *)
(* one deselect call if a button was selected before and none otherwise,   *)
(* and makes no select call.                                               *)
(***************************************************************************)
OutsideAll ==
    [][ (lastOp' = "move" /\ Hits(pos') = {})
            => /\ button_under_cursor' = None
               /\ hoveredButton' = None
               /\ \A i \in 1..Len(buttons') : ~buttons'[i].selected
               /\ \A k \in 1..Len(calls') : calls'[k][2] = FALSE
               /\ Len(calls') = (IF Selected # {} THEN 1 ELSE 0) ]_vars

OutsideAllWitness ==
    /\ lastOp = "move"
    /\ Hits(pos) = {}
    /\ Len(buttons) >= 2
    /\ old_button # None
    /\ calls = <<(<<old_button, FALSE>>)>>
    /\ Selected = {}

(***************************************************************************)
(* C8. Rapid movement: with the three buttons of test_rapid_movement,      *)
(* feeding (62,27), (177,27), (62,27), (292,27), (177,27) leaves at most   *)
(* one button selected after every step, and after the last step the       *)
(* selected button is the one at offset (125,10).                          *)
(***************************************************************************)
RapidMovement ==
    (Geometry(buttons) = Geometry(RapidLayout) /\ progress # Off)
    => /\ Cardinality(Selected) <= 1
       /\ progress = Len(RapidPositions)
            => /\ \E i \in 1..Len(buttons) :
                    /\ Selected = {i}
                    /\ buttons[i].parent_pos = <<125, 10>>
               /\ hoveredButton = 2

RapidMovementWitness ==
    /\ Geometry(buttons) = Geometry(RapidLayout)
    /\ progress = Len(RapidPositions)
    /\ lastOp = "move"
    /\ old_button = 3
    /\ Selected = {2}

(***************************************************************************)
(* C9. Postcondition under state drift, as claimed: after every            *)
(* simulate_mouseMove, whatever the flags held before it, exactly the      *)
(* hovered button (or no button) is selected.                              *)
(***************************************************************************)
PostconditionAfterEveryMove ==
    lastOp = "move" => HoverConsistent

(***************************************************************************)
(* C9, amended. After a simulate_mouseMove that sees a hover change,       *)
(* whatever the flags held before it, exactly the hovered button (or no    *)
(* button) is selected; a simulate_mouseMove that sees no hover change     *)
(* leaves the flags as they were, so the postcondition holds after it      *)
(* exactly when it held before it.                                         *)
(***************************************************************************)
PostconditionOnHoverChange ==
    [][ lastOp' = "move"
            => /\ (button_under_cursor' # old_button') => HoverConsistent'
               /\ (button_under_cursor' = old_button')
                    => (HoverConsistent' <=> HoverConsistent) ]_vars

PostconditionOnHoverChangeWitness ==
    /\ lastOp = "move"
    /\ button_under_cursor # old_button
    /\ Cardinality({k \in 1..Len(calls) : calls[k][2] = FALSE}) >= 2
    /\ hoveredButton # None
    /\ HoverConsistent

(***************************************************************************)
(* C10. Degenerate rectangles, as claimed: a button whose width or height  *)
(* is zero or negative contains no point and is never found.               *)
(***************************************************************************)
DegenerateNeverContains ==
    lastOp = "move" =>
        \A i \in 1..Len(buttons) :
            (buttons[i].size[1] <= 0 \/ buttons[i].size[2] <= 0)
            => /\ ~contains(rect(buttons[i]), mapFrom(buttons[i], pos))
               /\ button_under_cursor # i

(***************************************************************************)
(* C10, amended. A button whose width or height is negative contains no    *)
(* point and is never found. A button whose width or height is zero, the   *)
(* other not negative, contains exactly the points of its closed           *)
(* rectangle, which is a segment or a single point, and is found there     *)
(* when no earlier button holds the point.                                 *)
(***************************************************************************)
InvertedNeverContains ==
    lastOp = "move" =>
        \A i \in 1..Len(buttons) :
            /\ (buttons[i].size[1] < 0 \/ buttons[i].size[2] < 0)
                => /\ ~contains(rect(buttons[i]), mapFrom(buttons[i], pos))
                   /\ button_under_cursor # i
            /\ (/\ buttons[i].size[1] >= 0 /\ buttons[i].size[2] >= 0
                /\ (buttons[i].size[1] = 0 \/ buttons[i].size[2] = 0))
                => /\ contains(rect(buttons[i]), mapFrom(buttons[i], pos))
                        <=> InClosedRect(buttons[i], pos)
                   /\ (InClosedRect(buttons[i], pos)
                            /\ \A j \in 1..(i - 1) : j \notin Hits(pos))
                        => button_under_cursor = i

\* The pointer is on the extent an inverted button would cover if its
\* negative width were read backwards, and nothing is found.
InvertedNeverContainsWitness ==
    /\ lastOp = "move"
    /\ Len(buttons) = 1
    /\ buttons[1].size[1] < 0
    /\ buttons[1].parent_pos[1] + buttons[1].size[1] <= pos.x
    /\ pos.x <= buttons[1].parent_pos[1]
    /\ buttons[1].parent_pos[2] <= pos.y
    /\ pos.y <= buttons[1].parent_pos[2] + buttons[1].size[2]
    /\ button_under_cursor = None
    /\ hoveredButton = None

(***************************************************************************)
(* C11. Round trip of the coordinate mapping: mapping the pointer position *)
(* into a button's space with mapFrom and back out with the same offset    *)
(* gives the position again, for every button of the list.                 *)
(***************************************************************************)
MappingRoundTrip ==
    lastOp = "move" =>
        \A i \in 1..Len(buttons) :
            mapTo(buttons[i], mapFrom(buttons[i], pos)) = pos

MappingRoundTripWitness ==
    /\ lastOp = "move"
    /\ Len(buttons) >= 2
    /\ buttons[2].parent_pos = <<125, 10>>
    /\ pos = QPoint(116, 10)
    /\ mapFrom(buttons[2], pos) = QPoint(-9, 0)
    /\ mapTo(buttons[2], QPoint(-9, 0)) = pos

(***************************************************************************)
(* C12. Defensive clear-all: in a pointer-move event that sees a hover     *)
(* change, from any flags whatever (several buttons selected, or a button  *)
(* other than the hovered one), every button selected before gets a        *)
(* deselect call, and afterwards exactly the winner is selected (no button *)
(* if the winner is None) and the hovered reference is the winner.         *)
(***************************************************************************)
DefensiveClearAll ==
    [][ (lastOp' = "move" /\ button_under_cursor' # old_button')
            => /\ \A i \in Selected :
                    \E k \in 1..Len(calls') : calls'[k] = <<i, FALSE>>
               /\ Selected' = (IF button_under_cursor' = None
                                THEN {} ELSE {button_under_cursor'})
               /\ hoveredButton' = button_under_cursor' ]_vars

DefensiveClearAllWitness ==
    /\ lastOp = "move"
    /\ button_under_cursor = None
    /\ old_button # None
    /\ Len(calls) = 2
    /\ calls[1][1] # old_button
    /\ calls[2][1] # old_button
    /\ Selected = {}
    /\ hoveredButton = None

(***************************************************************************)
(* C13. Side-effect budget: with pointer-move events only, an event makes  *)
(* at most one select call and at most one deselect call; a select call is *)
(* for the winner, in an event that sees a hover change to a button; a     *)
(* deselect call is for a button that was selected when the event began.   *)
(***************************************************************************)
SideEffectBudget ==
    [][ lastOp' = "move"
            => LET sel   == {k \in 1..Len(calls') : calls'[k][2]}
                   desel == {k \in 1..Len(calls') : ~calls'[k][2]}
               IN  /\ Cardinality(sel) <= 1
                   /\ Cardinality(desel) <= 1
                   /\ \A k \in sel :
                        /\ calls'[k][1] = button_under_cursor'
                        /\ button_under_cursor' # None
                        /\ button_under_cursor' # old_button'
                   /\ \A k \in desel : calls'[k][1] \in Selected ]_vars

SideEffectBudgetWitness ==
    /\ lastOp = "move"
    /\ old_button # None
    /\ button_under_cursor # None
    /\ calls = <<(<<old_button, FALSE>>), (<<button_under_cursor, TRUE>>)>>

(***************************************************************************)
(* C14. Per-button state machine: every button starts unselected; a flag   *)
(* goes from unselected to selected only in an event that sees a hover     *)
(* change and has that button as winner; a selected button that is not the *)
(* winner of such an event is unselected by it; a flag goes from selected  *)
(* to unselected in no other step.                                         *)
(***************************************************************************)
RegionStateMachine ==
    /\ Selected = {}
    /\ [][ \A i \in 1..Len(buttons) :
            LET change == lastOp' = "move" /\ button_under_cursor' # old_button'
            IN  /\ (~buttons[i].selected /\ buttons'[i].selected)
                    => (change /\ button_under_cursor' = i)
                /\ (buttons[i].selected /\ change /\ button_under_cursor' # i)
                    => ~buttons'[i].selected
                /\ (buttons[i].selected /\ ~buttons'[i].selected)
                    => (change /\ button_under_cursor' # i) ]_vars

RegionStateMachineWitness ==
    /\ lastOp = "move"
    /\ Len(buttons) = 3
    /\ old_button = 3
    /\ button_under_cursor = 1
    /\ ~buttons[3].selected
    /\ buttons[1].selected
    /\ ~buttons[2].selected

(***************************************************************************)
(* C16. Frame conditions: a call of _findButtonAtPosition changes neither  *)
(* the hovered reference nor any button; simulate_mouseMove changes no     *)
(* button's offset or size, nor the membership or order of the button      *)
(* list.                                                                   *)
(***************************************************************************)
FrameConditions ==
    [][ /\ lastOp' = "find"
            => /\ buttons' = buttons
               /\ hoveredButton' = hoveredButton
        /\ lastOp' = "move"
            => /\ Len(buttons') = Len(buttons)
               /\ Geometry(buttons') = Geometry(buttons) ]_vars

FrameConditionsWitness ==
    /\ lastOp = "find"
    /\ button_under_cursor # None
    /\ hoveredButton # None
    /\ hoveredButton # button_under_cursor
    /\ Selected = {hoveredButton}

(***************************************************************************)
(* C15. Clear before set: with the statement groups of a pointer-move      *)
(* event observed one by one, from a state with at most one button         *)
(* selected, no state has two buttons selected; once the hovered reference *)
(* has been updated no button other than the winner is selected, and a     *)
(* select call is the last call of the event, made after the update.       *)
(***************************************************************************)
ClearBeforeSet ==
    /\ Cardinality(Selected) <= 1
    /\ lastOp \in {"step", "move"} =>
        /\ hoveredButton # old_button => Selected \subseteq {button_under_cursor}
        /\ \A k \in 1..Len(calls) :
                calls[k][2] => /\ k = Len(calls)
                               /\ hoveredButton = button_under_cursor

\* Between the clear loop and the update: nothing selected, the hovered
\* reference still the old one.
ClearBeforeSetWitness ==
    /\ lastOp = "step"
    /\ Phase = "hover"
    /\ old_button # None
    /\ button_under_cursor # None
    /\ hoveredButton = old_button
    /\ calls = <<(<<old_button, FALSE>>)>>
    /\ Selected = {}

(***************************************************************************)
(* C17. Backup before overwrite in copy_hotbox_files: for each of the two  *)
(* files, when the copy over an existing destination file starts, the      *)
(* backup already holds the destination's content; so once the destination *)
(* is overwritten the backup holds the content it had just before; and if  *)
(* the backup copy fails the destination file is left as it was.           *)
(***************************************************************************)
BackupBeforeOverwrite ==
    \A f \in Files :
        /\ (run.pc = "copy" /\ run.i = f /\ fs.dest[f] # Absent)
            => fs.backup[f] = fs.dest[f]
        /\ hist.before[f] \notin {"none", Absent}
            => fs.backup[f] = hist.before[f]
        /\ f \in hist.backup_failed
            => /\ fs.dest[f] = hist.fs0.dest[f]
               /\ hist.before[f] = "none"

BackupBeforeOverwriteWitness ==
    /\ run.pc = "done"
    /\ hist.fs0.dest[1] = "old"
    /\ hist.fs0.backup[1] = "older"
    /\ hist.before[1] = "old"
    /\ fs.dest[1] = "new"
    /\ fs.backup[1] = "old"
    /\ 2 \in hist.backup_failed
    /\ fs.dest[2] = "old"

(***************************************************************************)
(* C18. Result of copy_hotbox_files: it returns True exactly when both     *)
(* files were copied to the destination in this run; with the source or    *)
(* the destination directory missing it returns False and leaves every     *)
(* file as it was; a missing source file or a failed copy makes the result *)
(* False, and the loop still goes on to the other file.                    *)
(***************************************************************************)
CopyResult ==
    run.pc = "done" =>
        /\ run.result \in {"True", "False"}
        /\ (run.result = "True") <=> (hist.copied = Files)
        /\ (~hist.fs0.source_dir \/ ~hist.fs0.dest_dir)
            => /\ run.result = "False"
               /\ fs = hist.fs0
               /\ hist.visited = {}
        /\ (hist.fs0.source_dir /\ hist.fs0.dest_dir)
            => /\ hist.visited = Files
               /\ \A f \in Files :
                    (hist.fs0.source[f] = Absent \/ f \notin hist.copied)
                        => run.result = "False"

\* The copy of the first file failed part way, the second file was copied.
CopyResultWitness ==
    /\ run.pc = "done"
    /\ run.result = "False"
    /\ hist.fs0.source[1] = "new"
    /\ fs.dest[1] = "partial"
    /\ hist.copied = {2}
    /\ fs.dest[2] = "new"

====
